---- MODULE Spec2Model ----
(***************************************************************************)
(* Score update and leaderboard consistency engine of the live scoreboard  *)
(* (problem6): ScoreService.updateScore and its collaborators, modelled    *)
(* as concurrent invocations against a PostgreSQL store (READ COMMITTED,   *)
(* the Sequelize default), a Redis store and a leaderboard index.          *)
(* Times are in milliseconds.                                              *)
(***************************************************************************)
EXTENDS Integers, Sequences, FiniteSets, TLC

\* ---------------------------------------------------------------- bounds
MaxCalls == 2
MaxActions == 2
MaxTicks == 1
MaxSockets == 2
MaxMessages == 2
MaxN == 10
StackDepth == 6
MaxUpdates == 2

Calls == 1..MaxCalls
Sockets == 1..MaxSockets
Users == {"A", "B"}
UserOrder == <<"A", "B">>
ActionTypes == {"play"}
ScoreIncrements == {1, 50, 150}
initialScore == [u \in Users |-> 100]

\* ------------------------------------------------------ program constants
maxScorePerAction == 100
minTimeBetweenActions == 1000
maxActionsPerHour == 100
rapidFireThreshold == 10
scoreVelocityLimit == 1000
TokenLifetime == 300000
ActionWindowSeconds == 3600
RapidFireWindowSeconds == 60
ScoreCacheTtlSeconds == 300
SuspiciousTtlSeconds == 86400

\* the clock advances past one token lifetime at a time
TickSteps == {TokenLifetime, TokenLifetime + 1}

CHECKSUM_SECRET == "env.CHECKSUM_SECRET"

VARIABLES
  now,          \* wall clock (Date.now())
  ticks,        \* number of clock advances so far
  actions,      \* table Action: sequence of rows, row i has id i
  scores,       \* table Score: one row per user (or no row)
  history,      \* table ScoreHistory, committed rows in commit order
  lock,         \* row lock on Score rows (SELECT ... FOR UPDATE): holder call or 0
  pc,           \* position of each updateScore invocation
  req,          \* its arguments (request, actionToken)
  loc,          \* its local variables
  tx,           \* its transaction's uncommitted writes
  ret,          \* its outcome: returned value or thrown error
  lastAction,   \* redis last_action:<user>
  actionCount,  \* redis action_count:<user>
  suspicious,   \* redis suspicious:<user>
  scoreCache,   \* redis user_score:<user>
  index,        \* leaderboard index of LeaderboardService
  queue,        \* events handed to QueuePublisher.publish('score.updated')
  pubBy,        \* the invocation that handed over each event of queue
  sock,         \* WebSocketService: the sockets (connection state, userId, rooms)
  connectedUsers, \* WebSocketService.connectedUsers: userId -> set of socket ids
  authPending,  \* 'auth' handlers waiting for authService.validateToken
  messages,     \* messages published on the Redis channels, in order
  received,     \* how many of them the subscriber's 'message' handler has taken
  handlers,     \* handleScoreUpdate executions waiting for getTop10
  delivered,    \* per socket, the change events emitted to it, in order
  sumInput,     \* problem3: the argument n given to the three sum_to_n functions
  resultA,      \* outcome of sum_to_n_a(n), once called
  resultB,      \* outcome of sum_to_n_b(n), once called
  resultC,      \* outcome of sum_to_n_c(n), once called
  resources,    \* problem4: table resources, one row per id (or no row)
  upd,          \* problem4: the invocations of ResourceService.update
  board,        \* the Score rows the leaderboard queries read: user -> currentScore
  top,          \* the rows of the last CacheManager.calculateLeaderboard
  view,         \* the rows of the materialized view mv_top_scores, once created
  srvNow,       \* problem4 server: wall clock of the worker process (ms)
  srvPc,        \* position of the worker: starting, listening, closing, draining, ...
  isReady,      \* the worker's flag isReady
  isShuttingDown, \* the worker's flag isShuttingDown
  isDraining,   \* ConnectionDrainer.isDraining
  activeRequests, \* size of ConnectionDrainer.activeRequests
  readyAt,      \* due time of the readiness timer, or NoTimer
  forceAt,      \* due time of the forced-shutdown timer, or NoTimer
  drainStart,   \* startTime of waitForRequestsToComplete, or NoTimer
  srvLog,       \* the shutdown's log lines, in order
  exit,         \* process.exit: the code and the place that called it
  state,        \* CircuitBreaker.state
  failures,     \* CircuitBreaker.failures
  lastFailureTime, \* CircuitBreaker.lastFailureTime
  successCount, \* CircuitBreaker.successCount
  brkNow,       \* the clock the breaker reads (Date.now())
  ops,          \* the invocations of CircuitBreaker.execute
  brkCalls,     \* number of invocations of execute so far
  saga          \* the invocations of ScoreUpdateSaga.execute

coreVars == <<now, ticks, actions, scores, history, lock, pc, req, loc, tx, ret,
              lastAction, actionCount, suspicious, scoreCache, index, queue, pubBy>>
fanVars == <<sock, connectedUsers, authPending, messages, received, handlers, delivered>>
sumVars == <<sumInput, resultA, resultB, resultC>>
resVars == <<resources, upd>>
rankVars == <<board, top, view>>
srvVars == <<srvNow, srvPc, isReady, isShuttingDown, isDraining, activeRequests, readyAt,
             forceAt, drainStart, srvLog, exit>>
brkVars == <<state, failures, lastFailureTime, successCount, brkNow, ops, brkCalls>>
auxVars == <<sumVars, resVars, rankVars, srvVars, brkVars, saga>>
notSumVars == <<coreVars, fanVars, resVars, rankVars, srvVars, brkVars, saga>>
notResVars == <<coreVars, fanVars, sumVars, rankVars, srvVars, brkVars, saga>>
notRankVars == <<coreVars, fanVars, sumVars, resVars, srvVars, brkVars, saga>>
notSrvVars == <<coreVars, fanVars, sumVars, resVars, rankVars, brkVars, saga>>
notBrkVars == <<coreVars, fanVars, sumVars, resVars, rankVars, srvVars, saga>>
notSagaVars == <<coreVars, fanVars, sumVars, resVars, rankVars, srvVars, brkVars>>
vars == <<coreVars, fanVars, auxVars>>

dbVars == <<actions, scores, history, lock>>
redisVars == <<lastAction, actionCount, suspicious, scoreCache>>

\* ------------------------------------------------------------ data shapes
NoRow == [present |-> FALSE, currentScore |-> 0, totalActions |-> 0]
ScoreRow(s, n) == [present |-> TRUE, currentScore |-> s, totalActions |-> n]

NoKey == [present |-> FALSE, val |-> 0, exp |-> 0]
RedisKey(v, e) == [present |-> TRUE, val |-> v, exp |-> e]

NoReq == [userId |-> "", actionId |-> 0, token |-> <<>>, scoreIncrement |-> 0,
          timestamp |-> 0, actionType |-> "", checksum |-> <<>>]
NoLoc == [action |-> 0, previousScore |-> 0, totalActions |-> 0,
          previousRank |-> 0, newScore |-> 0, newRank |-> 0]
NoTx == [score |-> <<>>, hist |-> <<>>, action |-> <<>>]
NoRet == [kind |-> "none", error |-> "", success |-> FALSE, newScore |-> 0,
          rank |-> 0, previousRank |-> 0]
\* mutation: the catch block wraps every error in one generic error
ThrownWrapped(msg) == [kind |-> "thrown", error |-> "Internal server error", success |-> FALSE,
                       newScore |-> 0, rank |-> 0, previousRank |-> 0]

Thrown(msg) == [kind |-> "thrown", error |-> msg, success |-> FALSE, newScore |-> 0,
                rank |-> 0, previousRank |-> 0]
NoNote == [present |-> FALSE, timestamp |-> 0, request |-> NoReq, reason |-> "", exp |-> 0]

\* redis GET: a key past its TTL is gone
RedisGet(k, t) == IF k.present /\ t < k.exp THEN k ELSE NoKey

\* a socket: not yet connected, connected or disconnected; socket.userId ("" when
\* unset); the rooms it has joined
NoSocket == [status |-> "idle", userId |-> "", rooms |-> {}]
\* an entry of the connectedUsers map: absent, or a set of socket ids
NoEntry == [has |-> FALSE, ids |-> {}]
LeaderboardRoom == <<"leaderboard">>
UserRoom(u) == <<"user", u>>
Channels == {"score_updates", "leaderboard_updates"}
\* bearer tokens: for a user, with a live session or not
Jwts == [userId : Users, valid : BOOLEAN]

\* the outcome of a call of a numeric function: not called yet, a value, or a
\* RangeError (maximum call stack size exceeded)
NotCalled == [kind |-> "none", val |-> 0]
Value(v) == [kind |-> "value", val |-> v]
RangeError == [kind |-> "RangeError", val |-> 0]

\* --------------------------------------------------- leaderboard queries
RankUsers == {"A", "B", "C"}
\* the user ids in ascending order
RankUserOrder == <<"A", "B", "C">>
BoardScores == {300, 400, 500}
LeaderboardLimit == 10
ViewLimit == 1000

\* ------------------------------------------------- problem4: resources
Updaters == 1..MaxUpdates
ResourceIds == {"r1", "r2"}
\* a field that a DTO leaves out
Undefined == "undefined"
\* SQL NULL
Null == "NULL"

\* JSON.stringify and JSON.parse on the metadata objects in use
MetadataObjects == {"obj:{}", "obj:{k:1}"}
JsonStringify(o) == IF o = "obj:{}" THEN "{}" ELSE "{\"k\":1}"
JsonParse(text) == IF text = "{}" THEN "obj:{}" ELSE "obj:{k:1}"

Dto(name, description, type, status, metadata) ==
  [name |-> name, description |-> description, type |-> type, status |-> status,
   metadata |-> metadata]
\* the CreateResourceDto the first resource was created from
OriginalDto == Dto("Original Name", "Original Description", "original-type", "active",
                   Undefined)
\* the UpdateResourceDto values submitted
UpdateDtos ==
  { Dto(Undefined, Undefined, Undefined, Undefined, Undefined),
    Dto("Only Name Updated", Undefined, Undefined, Undefined, Undefined),
    Dto("Updated Name", "Updated Description", Undefined, "inactive", Undefined),
    Dto(Undefined, Undefined, "updated-type", Undefined, "obj:{k:1}"),
    Dto(Undefined, "", Undefined, "archived", "obj:{}") }

NoResource == [present |-> FALSE, id |-> "", name |-> "", description |-> "", type |-> "",
               status |-> "", metadata |-> "", created_at |-> 0, updated_at |-> 0]
\* the row that create's INSERT stores at time t
InsertedRow(id, data, t) ==
  [present |-> TRUE, id |-> id, name |-> data.name,
   description |-> IF data.description \in {Undefined, ""} THEN Null ELSE data.description,
   type |-> data.type,
   status |-> IF data.status \in {Undefined, ""} THEN "active" ELSE data.status,
   metadata |-> IF data.metadata = Undefined THEN Null ELSE JsonStringify(data.metadata),
   created_at |-> t, updated_at |-> t]

NoResult == [kind |-> "none", statusCode |-> 0, code |-> "", resource |-> NoResource]
AppError(statusCode, code) ==
  [kind |-> "thrown", statusCode |-> statusCode, code |-> code, resource |-> NoResource]
ReturnedResource(r) == [kind |-> "returned", statusCode |-> 0, code |-> "", resource |-> r]
NoUpdate == [pc |-> "idle", id |-> "", data |-> Dto(Undefined, Undefined, Undefined,
             Undefined, Undefined), result |-> NoResult]

\* ------------------------------------------------------ AntiCheatService
\* sha256 over the joined fields, as an injective digest of them
Sha256(userId, actionType, scoreIncrement, secret) ==
  <<"sha256", userId, actionType, scoreIncrement, secret>>

validateChecksum(r) ==
  r.checksum = Sha256(r.userId, r.actionType, r.scoreIncrement, CHECKSUM_SECRET)

\* mutation: the increment is compared with the wrong configuration field
ExceedsVelocityLimit(r) == r.scoreIncrement > scoreVelocityLimit

ExceedsMaxScore(r) == r.scoreIncrement > maxScorePerAction

\* mutation: the last_action key is not qualified by the user id
getLastActionTimeAnyUser(userId, t) ==
  IF \E u \in Users : RedisGet(lastAction[u], t).present
  THEN RedisGet(lastAction[CHOOSE u \in Users : RedisGet(lastAction[u], t).present], t)
  ELSE NoKey

getLastActionTime(userId, t) == RedisGet(lastAction[userId], t)

TooFrequent(r, t) ==
  LET last == getLastActionTime(r.userId, t)
  IN  last.present /\ r.timestamp - last.val < minTimeBetweenActions

getActionCount(userId, t) ==
  LET k == RedisGet(actionCount[userId], t) IN IF k.present THEN k.val ELSE 0

getRecentActions(userId, windowSeconds, t) ==
  SelectSeq(history, LAMBDA h: h.userId = userId /\ h.timestamp >= t - windowSeconds * 1000)

RECURSIVE SumScoreChange(_)
SumScoreChange(rows) ==
  IF rows = <<>> THEN 0 ELSE Head(rows).scoreChange + SumScoreChange(Tail(rows))

calculateScoreVelocity(userId, windowSeconds, t) ==
  SumScoreChange(getRecentActions(userId, windowSeconds, t))

detectSuspiciousPatterns(r, t) ==
  \/ Len(getRecentActions(r.userId, RapidFireWindowSeconds, t)) > rapidFireThreshold
  \/ calculateScoreVelocity(r.userId, ActionWindowSeconds, t) > scoreVelocityLimit

\* the tests of validateScoreUpdate in the order of its statements, each named
\* after the configuration field (or the function) it tests against
CheckOrder == <<"checksum", "maxScorePerAction", "minTimeBetweenActions",
                "maxActionsPerHour", "suspiciousPatterns">>

CheckFails(name, r, t) ==
  CASE name = "checksum" -> ~validateChecksum(r)
    [] name = "maxScorePerAction" -> ExceedsMaxScore(r)
    [] name = "minTimeBetweenActions" -> TooFrequent(r, t)
    [] name = "maxActionsPerHour" -> getActionCount(r.userId, t) >= maxActionsPerHour
    [] name = "suspiciousPatterns" -> detectSuspiciousPatterns(r, t)

\* mutation: no early return, every test is evaluated
RECURSIVE ChecksRunAll(_, _, _)
ChecksRunAll(k, r, t) ==
  IF k > Len(CheckOrder) THEN <<>>
  ELSE <<CheckOrder[k]>> \o ChecksRunAll(k + 1, r, t)

\* the tests that validateScoreUpdate evaluates from its k-th statement on: it
\* returns false at the first one that fails
RECURSIVE ChecksRun(_, _, _)
ChecksRun(k, r, t) ==
  IF k > Len(CheckOrder) THEN <<>>
  ELSE IF CheckFails(CheckOrder[k], r, t) THEN <<CheckOrder[k]>>
       ELSE <<CheckOrder[k]>> \o ChecksRun(k + 1, r, t)

\* the test at which validateScoreUpdate returned false ("" when it returns true)
RejectedAt(r, t) ==
  LET run == ChecksRun(1, r, t)
  IN  IF CheckFails(run[Len(run)], r, t) THEN run[Len(run)] ELSE ""

\* the checks of validateScoreUpdate up to (not including) recordAction
validateScoreUpdate(r, t) ==
  /\ validateChecksum(r)
  /\ ~ExceedsMaxScore(r)
  /\ ~TooFrequent(r, t)
  /\ ~(getActionCount(r.userId, t) >= maxActionsPerHour)
  /\ ~detectSuspiciousPatterns(r, t)

\* ---------------------------------------------------- LeaderboardService
\* ranking order: descending score, ties by ascending user id
UserPos(u) == CHOOSE i \in DOMAIN UserOrder : UserOrder[i] = u
Before(idx, v, u) ==
  \/ idx[v].currentScore > idx[u].currentScore
  \/ idx[v].currentScore = idx[u].currentScore /\ UserPos(v) < UserPos(u)
getUserRank(idx, u) ==
  1 + Cardinality({v \in Users : v # u /\ idx[v].present /\ Before(idx, v, u)})
updateUserScore(idx, u, score) ==
  [idx EXCEPT ![u] = [present |-> TRUE, currentScore |-> score]]

\* ------------------------------------------------------------ ScoreService
\* mutation: the userId filter is missing from the where clause
ActionMatchesAnyUser(a, actionId, userId, token) ==
  /\ a.id = actionId
  /\ a.token = token
  /\ a.status = "pending"

\* mutation: the status filter is missing from the where clause
ActionMatchesAnyStatus(a, actionId, userId, token) ==
  /\ a.id = actionId
  /\ a.userId = userId
  /\ a.token = token

\* where { id: actionId, userId, token, status: 'pending' }
ActionMatches(a, actionId, userId, token) ==
  /\ a.id = actionId
  /\ a.userId = userId
  /\ a.token = token
  /\ a.status = "pending"

\* mutation: the expiry test is left out
ExpiredNever(a, t) == FALSE

Expired(a, t) == t > a.expiresAt

\* mutations: the increment replaces the score; the increment is subtracted
NewScoreOverwrites(previousScore, scoreIncrement) == scoreIncrement
NewScoreSubtracts(previousScore, scoreIncrement) == previousScore - scoreIncrement

NewScore(previousScore, scoreIncrement) == previousScore + scoreIncrement

Token(i) == <<"token", i>>
ForgedToken == <<"token", 0>>

\* the services and the sockets after construction, with no invocation started
\* problem4 server: a timer that is not armed, and a process that has not exited
NoTimer == -1
NotExited == [code |-> -1, by |-> "none"]

\* CircuitBreaker: the invocations of execute that may overlap, and one that
\* has not been made
MaxOps == 2
Ops == 1..MaxOps
NoOp == [pc |-> "idle", fallback |-> FALSE, out |-> "none"]

\* ScoreUpdateSaga: the invocations of execute that may overlap, and one that
\* has not been made (executedSteps is the invocation's local array, compensated
\* the calls of compensate it has made, in order)
MaxSagas == 2
Sagas == 1..MaxSagas
NoSaga == [pc |-> "idle", step |-> 0, executedSteps |-> <<>>, at |-> 0, failedAt |-> 0,
           compensated |-> <<>>, success |-> FALSE]

Idle ==
  /\ now = 0
  /\ ticks = 0
  /\ actions = <<>>
  /\ lock = [u \in Users |-> 0]
  /\ pc = [c \in Calls |-> "idle"]
  /\ req = [c \in Calls |-> NoReq]
  /\ loc = [c \in Calls |-> NoLoc]
  /\ tx = [c \in Calls |-> NoTx]
  /\ ret = [c \in Calls |-> NoRet]
  /\ suspicious = [u \in Users |-> NoNote]
  /\ queue = <<>>
  /\ pubBy = <<>>
  /\ sock = [s \in Sockets |-> NoSocket]
  /\ connectedUsers = [u \in Users |-> NoEntry]
  /\ authPending = {}
  /\ messages = <<>>
  /\ received = 0
  /\ handlers = {}
  /\ delivered = [s \in Sockets |-> <<>>]
  /\ resultA = NotCalled
  /\ resultB = NotCalled
  /\ resultC = NotCalled
  /\ resources = [id \in ResourceIds |->
                    IF id = "r1" THEN InsertedRow(id, OriginalDto, 0) ELSE NoResource]
  /\ upd = [u \in Updaters |-> NoUpdate]
  /\ board = [u \in RankUsers |-> IF u = "C" THEN 300 ELSE 500]
  /\ top = <<>>
  /\ view = <<>>
  /\ srvNow = 0
  /\ srvPc = "starting"
  /\ isReady = FALSE
  /\ isShuttingDown = FALSE
  /\ isDraining = FALSE
  /\ activeRequests = 0
  /\ readyAt = NoTimer
  /\ forceAt = NoTimer
  /\ drainStart = NoTimer
  /\ srvLog = <<>>
  /\ exit = NotExited
  /\ state = "CLOSED"
  /\ failures = 0
  /\ lastFailureTime = 0
  /\ successCount = 0
  /\ brkNow = 0
  /\ ops = [o \in Ops |-> NoOp]
  /\ brkCalls = 0
  /\ saga = [g \in Sagas |-> NoSaga]

\* the stores before any mutation: Score rows at their initial score, no
\* ScoreHistory row, no Redis key
NoMutationYet ==
  /\ scores \in {f \in [Users -> {NoRow} \cup {ScoreRow(initialScore[u], 0) : u \in Users}] :
                  /\ \A u \in Users : f[u].present => f[u].currentScore = initialScore[u]
                  /\ f["A"].present}
  /\ history = <<>>
  /\ lastAction = [u \in Users |-> NoKey]
  /\ actionCount = [u \in Users |-> NoKey]
  /\ scoreCache = [u \in Users |-> NoKey]
  /\ index = [u \in Users |-> [present |-> scores[u].present,
                               currentScore |-> scores[u].currentScore]]

\* the state after construction, but for the argument of the sum_to_n functions
Constructed == Idle /\ NoMutationYet

Init == Constructed /\ sumInput = 0

\* the sum_to_n functions are given any integer of the range
InitSum == Constructed /\ sumInput \in -MaxN..MaxN

\* the ScoreHistory rows of n accepted mutations of user u, each of the given
\* score change, gap milliseconds apart, the last one gap milliseconds ago
PriorHistory(u, n, gap, change) ==
  [k \in 1..n |->
     [id |-> 0, userId |-> u, actionId |-> -k, scoreChange |-> change,
      previousScore |-> initialScore[u] + (k - 1) * change,
      newScore |-> initialScore[u] + k * change,
      timestamp |-> -((n - k + 1) * gap)]]

\* the stores after those n mutations of user u have run one after the other,
\* each accepted; every recordAction has renewed the two keys for an hour (so
\* action_count:u has lived on when gap is under an hour), the last
\* updateScoreCache has set user_score:u. The Action rows of the n mutations
\* are completed and are left out
AfterMutations(u, n, gap, change) ==
  /\ scores = [v \in Users |->
                 IF v = u THEN ScoreRow(initialScore[u] + n * change, n)
                 ELSE ScoreRow(initialScore[v], 0)]
  /\ history = PriorHistory(u, n, gap, change)
  /\ lastAction = [v \in Users |->
                     IF v = u THEN RedisKey(-gap, ActionWindowSeconds * 1000 - gap)
                     ELSE NoKey]
  /\ actionCount = [v \in Users |->
                      IF v = u THEN RedisKey(n, ActionWindowSeconds * 1000 - gap)
                      ELSE NoKey]
  /\ scoreCache = [v \in Users |->
                     IF v = u THEN RedisKey(initialScore[u] + n * change,
                                            ScoreCacheTtlSeconds * 1000 - gap)
                     ELSE NoKey]
  /\ index = [v \in Users |-> [present |-> TRUE, currentScore |-> scores[v].currentScore]]

\* user A one accepted action short of maxActionsPerHour within the last hour:
\* 99 mutations of +1, 30 seconds apart
InitNearCap ==
  Idle /\ sumInput = 0 /\ AfterMutations("A", maxActionsPerHour - 1, 30000, 1)

\* user A active for a long time at a slow pace: 100 mutations of +1, half an
\* hour apart
InitSlowUser ==
  Idle /\ sumInput = 0 /\ AfterMutations("A", maxActionsPerHour, 1800000, 1)

\* user A in a burst: rapidFireThreshold mutations of +100, two seconds apart
InitBurst ==
  Idle /\ sumInput = 0 /\ AfterMutations("A", rapidFireThreshold, 2000, 100)

\* user A's one accepted action lies exactly minTimeBetweenActions back
InitAtFloor ==
  Idle /\ sumInput = 0 /\ AfterMutations("A", 1, minTimeBetweenActions, 1)

Tick ==
  /\ ticks < MaxTicks
  /\ \E d \in TickSteps : now' = now + d
  /\ ticks' = ticks + 1
  /\ UNCHANGED <<dbVars, pc, req, loc, tx, ret, redisVars, index, queue, pubBy, fanVars, auxVars>>

\* generateActionToken(userId, actionType)
generateActionToken ==
  /\ Len(actions) < MaxActions
  /\ \E userId \in Users, actionType \in ActionTypes :
       actions' = Append(actions,
         [id |-> Len(actions) + 1, userId |-> userId, actionType |-> actionType,
          status |-> "pending", token |-> Token(Len(actions) + 1),
          expiresAt |-> now + TokenLifetime])
  /\ UNCHANGED <<now, ticks, scores, history, lock, pc, req, loc, tx, ret,
                 redisVars, index, queue, pubBy, fanVars, auxVars>>

\* the catch block of updateScore when the transaction holds no lock and no write
Finish(c, result) ==
  /\ pc' = [pc EXCEPT ![c] = "done"]
  /\ ret' = [ret EXCEPT ![c] = result]
  /\ req' = [req EXCEPT ![c] = NoReq]
  /\ loc' = [loc EXCEPT ![c] = NoLoc]
  /\ tx' = [tx EXCEPT ![c] = NoTx]

\* a request as a client submits it; request.timestamp is the client's clock,
\* which agrees with the server's
Request(userId, actionId, token, scoreIncrement, actionType, secret) ==
  [userId |-> userId, actionId |-> actionId, token |-> token,
   scoreIncrement |-> scoreIncrement, timestamp |-> now, actionType |-> actionType,
   checksum |-> Sha256(userId, actionType, scoreIncrement, secret)]

Secrets == {CHECKSUM_SECRET, "guess"}
Tokens == {Token(i) : i \in DOMAIN actions} \cup {ForgedToken}

\* validateActionToken: Action.findOne (a plain read of the committed rows),
\* then the expiry test
validateActionToken(r) ==
  /\ ActionMatches(actions[r.actionId], r.actionId, r.userId, r.token)
  /\ ~Expired(actions[r.actionId], now)

\* updateScore, lines 139-143: begin the transaction, validateActionToken
updateScoreBegin(c, r) ==
  /\ pc[c] = "idle"
  /\ \A d \in Calls : d < c => pc[d] # "idle"
  /\ IF ~validateActionToken(r)
     THEN Finish(c, Thrown("Invalid or expired action token"))
     ELSE /\ pc' = [pc EXCEPT ![c] = "validated"]
          /\ req' = [req EXCEPT ![c] = r]
          /\ loc' = [loc EXCEPT ![c].action = r.actionId]
          /\ UNCHANGED <<tx, ret>>
  /\ UNCHANGED <<now, ticks, dbVars, redisVars, index, queue, pubBy, fanVars, auxVars>>

ValidateActionToken(c) ==
  \E userId \in Users, actionId \in DOMAIN actions, token \in Tokens,
     scoreIncrement \in ScoreIncrements, actionType \in ActionTypes, secret \in Secrets :
    updateScoreBegin(c, Request(userId, actionId, token, scoreIncrement, actionType, secret))

\* mutation: the note is stored without the request
flagSuspiciousActivityOmitsRequest(userId, request, t) ==
  [present |-> TRUE, timestamp |-> t, request |-> NoReq,
   reason |-> "Failed anti-cheat validation", exp |-> t + SuspiciousTtlSeconds * 1000]

\* flagSuspiciousActivity: the value that setex stores under suspicious:<userId>
flagSuspiciousActivity(userId, request, t) ==
  [present |-> TRUE, timestamp |-> t, request |-> request,
   reason |-> "Failed anti-cheat validation", exp |-> t + SuspiciousTtlSeconds * 1000]

\* validateScoreUpdate up to its decision; on rejection flagSuspiciousActivity
\* and the throw of line 155
AntiCheatCheck(c) ==
  /\ pc[c] = "validated"
  /\ IF validateScoreUpdate(req[c], now)
     THEN /\ pc' = [pc EXCEPT ![c] = "admitted"]
          /\ UNCHANGED <<req, loc, tx, ret, suspicious>>
     ELSE /\ suspicious' = [suspicious EXCEPT ![req[c].userId] =
               flagSuspiciousActivity(req[c].userId, req[c], now)]
          /\ Finish(c, Thrown("Score update failed validation"))
  /\ UNCHANGED <<now, ticks, dbVars, lastAction, actionCount, scoreCache, index,
                 queue, pubBy, fanVars, auxVars>>

\* mutation: recordAction sets last_action only, the count is not incremented
recordActionWithoutCount(c) ==
  /\ pc[c] = "admitted"
  /\ lastAction' = [lastAction EXCEPT ![req[c].userId] =
       RedisKey(req[c].timestamp, now + ActionWindowSeconds * 1000)]
  /\ pc' = [pc EXCEPT ![c] = "recorded"]
  /\ UNCHANGED <<now, ticks, dbVars, req, loc, tx, ret, suspicious, scoreCache, actionCount,
                 index, queue, pubBy, fanVars, auxVars>>

\* recordAction: setex last_action, incr and expire action_count
recordAction(c) ==
  /\ pc[c] = "admitted"
  /\ LET u == req[c].userId
         n == getActionCount(u, now)
     IN  /\ lastAction' = [lastAction EXCEPT ![u] =
              RedisKey(req[c].timestamp, now + ActionWindowSeconds * 1000)]
         /\ actionCount' = [actionCount EXCEPT ![u] =
              RedisKey(n + 1, now + ActionWindowSeconds * 1000)]
  /\ pc' = [pc EXCEPT ![c] = "recorded"]
  /\ UNCHANGED <<now, ticks, dbVars, req, loc, tx, ret, suspicious, scoreCache,
                 index, queue, pubBy, fanVars, auxVars>>

\* mutation: the row is read without LOCK.UPDATE
RowLockIgnored(u) == TRUE

\* SELECT ... FOR UPDATE waits while another transaction holds the row lock
RowLockFree(u) == lock[u] = 0

\* transaction.commit(): the buffered writes become the committed rows
transactionCommit(c) ==
  LET u == req[c].userId
      w == tx[c]
  IN  /\ scores' = IF w.score = <<>> THEN scores
                   ELSE [scores EXCEPT ![u] = Head(w.score)]
      /\ history' = history \o w.hist
      /\ actions' = IF w.action = <<>> THEN actions
                    ELSE [actions EXCEPT ![loc[c].action].status = Head(w.action)]

\* mutation: the writes were made outside the transaction, rollback keeps them
rollbackKeepsWrites(c) ==
  /\ scores' = IF tx[c].score = <<>> THEN scores
                ELSE [scores EXCEPT ![req[c].userId] = Head(tx[c].score)]
  /\ history' = history \o tx[c].hist
  /\ UNCHANGED actions

\* transaction.rollback(): the buffered writes are dropped
transactionRollback(c) == UNCHANGED <<scores, history, actions>>

\* lines 158-168: Score.findOne under LOCK.UPDATE, getUserRank, newScore
ReadScore(c) ==
  /\ pc[c] = "recorded"
  /\ LET u == req[c].userId IN
     IF ~scores[u].present
     THEN /\ Finish(c, Thrown("User score not found"))
          /\ UNCHANGED lock
     ELSE /\ RowLockFree(u)
          /\ lock' = [lock EXCEPT ![u] = c]
          /\ pc' = [pc EXCEPT ![c] = "locked"]
          /\ loc' = [loc EXCEPT ![c].previousScore = scores[u].currentScore,
                                ![c].totalActions = scores[u].totalActions,
                                ![c].previousRank = getUserRank(index, u),
                                ![c].newScore =
                                  NewScore(scores[u].currentScore, req[c].scoreIncrement)]
          /\ UNCHANGED <<req, tx, ret>>
  /\ UNCHANGED <<now, ticks, actions, scores, history, redisVars, index, queue, pubBy, fanVars, auxVars>>

\* lines 170-189: currentScore.update, ScoreHistory.create, action.update, all
\* inside the transaction; the store may fail any of them (k of them succeed)
WriteRows(c) ==
  /\ pc[c] = "locked"
  /\ \E k \in 0..3 :
       /\ tx' = [tx EXCEPT ![c] =
            [score |-> IF k >= 1
                       THEN <<ScoreRow(loc[c].newScore, loc[c].totalActions + 1)>>
                       ELSE <<>>,
             hist |-> IF k >= 2
                      THEN <<[id |-> c, userId |-> req[c].userId,
                              actionId |-> req[c].actionId,
                              scoreChange |-> req[c].scoreIncrement,
                              previousScore |-> loc[c].previousScore,
                              newScore |-> loc[c].newScore,
                              timestamp |-> req[c].timestamp]>>
                      ELSE <<>>,
             action |-> IF k >= 3 THEN <<"completed">> ELSE <<>>]]
       /\ pc' = [pc EXCEPT ![c] = IF k = 3 THEN "written" ELSE "failed"]
  /\ UNCHANGED <<now, ticks, dbVars, req, loc, ret, redisVars, index, queue, pubBy, fanVars, auxVars>>

\* line 191
Commit(c) ==
  /\ pc[c] = "written"
  /\ transactionCommit(c)
  /\ lock' = [lock EXCEPT ![req[c].userId] = 0]
  /\ tx' = [tx EXCEPT ![c] = NoTx]
  /\ pc' = [pc EXCEPT ![c] = "committed"]
  /\ UNCHANGED <<now, ticks, req, loc, ret, redisVars, index, queue, pubBy, fanVars, auxVars>>

\* lines 207-210 after a failed store operation
Rollback(c) ==
  /\ pc[c] = "failed"
  /\ transactionRollback(c)
  /\ lock' = [lock EXCEPT ![req[c].userId] = 0]
  /\ Finish(c, Thrown("store operation failed"))
  /\ UNCHANGED <<now, ticks, redisVars, index, queue, pubBy, fanVars, auxVars>>

\* line 193, updateScoreCache
updateScoreCache(c) ==
  /\ pc[c] = "committed"
  /\ scoreCache' = [scoreCache EXCEPT ![req[c].userId] =
       RedisKey(loc[c].newScore, now + ScoreCacheTtlSeconds * 1000)]
  /\ pc' = [pc EXCEPT ![c] = "cached"]
  /\ UNCHANGED <<now, ticks, dbVars, req, loc, tx, ret, lastAction, actionCount,
                 suspicious, index, queue, pubBy, fanVars, auxVars>>

\* line 194, leaderboardService.updateUserScore
UpdateLeaderboard(c) ==
  /\ pc[c] = "cached"
  /\ index' = updateUserScore(index, req[c].userId, loc[c].newScore)
  /\ loc' = [loc EXCEPT ![c].newRank = getUserRank(index', req[c].userId)]
  /\ pc' = [pc EXCEPT ![c] = "indexed"]
  /\ UNCHANGED <<now, ticks, dbVars, req, tx, ret, redisVars, queue, pubBy, fanVars, auxVars>>

\* lines 196-206, publishScoreUpdate and the return
publishScoreUpdate(c) ==
  /\ pc[c] = "indexed"
  /\ queue' = Append(queue,
       [userId |-> req[c].userId, oldScore |-> loc[c].previousScore,
        newScore |-> loc[c].newScore, oldRank |-> loc[c].previousRank,
        newRank |-> loc[c].newRank])
  /\ pubBy' = Append(pubBy, c)
  /\ Finish(c, [kind |-> "returned", error |-> "", success |-> TRUE,
                newScore |-> loc[c].newScore, rank |-> loc[c].newRank,
                previousRank |-> loc[c].previousRank])
  /\ UNCHANGED <<now, ticks, dbVars, redisVars, index, fanVars, auxVars>>

Next ==
  \/ Tick
  \/ generateActionToken
  \/ \E c \in Calls : ValidateActionToken(c)
  \/ \E c \in Calls : AntiCheatCheck(c)
  \/ \E c \in Calls : recordAction(c)
  \/ \E c \in Calls : ReadScore(c)
  \/ \E c \in Calls : WriteRows(c)
  \/ \E c \in Calls : Commit(c)
  \/ \E c \in Calls : Rollback(c)
  \/ \E c \in Calls : updateScoreCache(c)
  \/ \E c \in Calls : UpdateLeaderboard(c)
  \/ \E c \in Calls : publishScoreUpdate(c)

Spec == Init /\ [][Next]_vars

\* lines 193-204 when Redis, the leaderboard service or the publisher rejects:
\* the await throws inside the try block, the catch block calls
\* transaction.rollback() on the transaction that has committed (which undoes
\* nothing) and the invocation throws
PostCommitFailure(c) ==
  /\ pc[c] \in {"committed", "cached", "indexed"}
  /\ Finish(c, Thrown(CASE pc[c] = "committed" -> "updateScoreCache failed"
                        [] pc[c] = "cached" -> "updateUserScore failed"
                        [] OTHER -> "publish failed"))
  /\ UNCHANGED <<now, ticks, dbVars, redisVars, index, queue, pubBy, fanVars, auxVars>>

NextWithFailures ==
  \/ Next
  \/ \E c \in Calls : PostCommitFailure(c)

\* the invocations when the services called after the commit may fail
SpecWithFailures == Init /\ [][NextWithFailures]_vars

\* the same invocations, started from stores that earlier mutations have filled
SpecNearCap == InitNearCap /\ [][Next]_vars
SpecSlowUser == InitSlowUser /\ [][Next]_vars
SpecBurst == InitBurst /\ [][Next]_vars
SpecAtFloor == InitAtFloor /\ [][Next]_vars

\* ------------------------------------------------------- WebSocketService
addUserConnection(cu, userId, socketId) ==
  [cu EXCEPT ![userId] = [has |-> TRUE, ids |-> cu[userId].ids \cup {socketId}]]

removeUserConnection(cu, userId, socketId) ==
  IF ~cu[userId].has THEN cu
  ELSE LET left == cu[userId].ids \ {socketId}
       IN  IF left = {} THEN [cu EXCEPT ![userId] = NoEntry]
           ELSE [cu EXCEPT ![userId] = [has |-> TRUE, ids |-> left]]

\* mutation: the socket is left connected, only its rooms and registry entry go
disconnectedLeavesConnected(s) ==
  /\ sock' = [sock EXCEPT ![s].rooms = {}]
  /\ connectedUsers' = IF sock[s].userId # ""
                       THEN removeUserConnection(connectedUsers, sock[s].userId, s)
                       ELSE connectedUsers

\* socket 'disconnect' handler, lines 314-318, and the socket leaving its rooms
disconnected(s) ==
  /\ sock' = [sock EXCEPT ![s].status = "disconnected", ![s].rooms = {}]
  /\ connectedUsers' = IF sock[s].userId # ""
                       THEN removeUserConnection(connectedUsers, sock[s].userId, s)
                       ELSE connectedUsers

\* mutation: io.emit(event, ...) instead of io.to(room).emit(event, ...)
EmitToAll(dl, room, event, seq) ==
  [s \in Sockets |->
     IF sock[s].status = "connected"
     THEN Append(dl[s], [event |-> event, seq |-> seq])
     ELSE dl[s]]

\* io.to(room).emit(event, ...): every connected socket in the room gets it;
\* seq records which message of the channel the event is about
Emit(dl, room, event, seq) ==
  [s \in Sockets |->
     IF sock[s].status = "connected" /\ room \in sock[s].rooms
     THEN Append(dl[s], [event |-> event, seq |-> seq])
     ELSE dl[s]]

\* mutation: a socket that has disconnected is handed to 'connection' again
ConnectAgain(s) ==
  /\ sock[s].status \in {"idle", "disconnected"}
  /\ sock' = [sock EXCEPT ![s].status = "connected"]
  /\ UNCHANGED <<coreVars, auxVars, connectedUsers, authPending, messages, received, handlers,
                 delivered>>

\* io.on('connection')
Connect(s) ==
  /\ sock[s].status = "idle"
  /\ \A t \in Sockets : t < s => sock[t].status # "idle"
  /\ sock' = [sock EXCEPT ![s].status = "connected"]
  /\ UNCHANGED <<coreVars, auxVars, connectedUsers, authPending, messages, received, handlers,
                 delivered>>

\* socket.on('auth'), line 295-297: the handler starts validateToken
AuthReceive(s) ==
  /\ sock[s].status = "connected"
  /\ \A e \in authPending : e[1] # s
  /\ \E jwt \in Jwts : authPending' = authPending \cup {<<s, jwt>>}
  /\ UNCHANGED <<coreVars, auxVars, sock, connectedUsers, messages, received, handlers, delivered>>

\* lines 297-311: validateToken settles; on success the socket is bound to the
\* user, registered and joined to the two rooms, on failure it is disconnected
AuthSettle(s) ==
  \E e \in authPending :
    /\ e[1] = s
    /\ authPending' = authPending \ {e}
    /\ IF e[2].valid
       THEN /\ sock' = [sock EXCEPT
                 ![s].userId = e[2].userId,
                 ![s].rooms = sock[s].rooms \cup {UserRoom(e[2].userId), LeaderboardRoom}]
            /\ connectedUsers' = addUserConnection(connectedUsers, e[2].userId, s)
       ELSE IF sock[s].status = "connected"
            THEN disconnected(s)
            ELSE UNCHANGED <<sock, connectedUsers>>
    /\ UNCHANGED <<coreVars, auxVars, messages, received, handlers, delivered>>

\* the transport closes the socket
Disconnect(s) ==
  /\ sock[s].status = "connected"
  /\ disconnected(s)
  /\ UNCHANGED <<coreVars, auxVars, authPending, messages, received, handlers, delivered>>

\* a message is published on one of the two Redis channels
PublishMessage ==
  /\ Len(messages) < MaxMessages
  /\ \E channel \in Channels, userId \in Users :
       messages' = Append(messages, [channel |-> channel, userId |-> userId])
  /\ UNCHANGED <<coreVars, auxVars, sock, connectedUsers, authPending, received, handlers,
                 delivered>>

\* subscriber.on('message'), lines 332-343: the next message, in channel order;
\* handleLeaderboardUpdate emits at once, handleScoreUpdate first awaits getTop10
OnMessage ==
  /\ received < Len(messages)
  /\ received' = received + 1
  /\ IF messages[received + 1].channel = "score_updates"
     THEN /\ handlers' = handlers \cup {received + 1}
          /\ UNCHANGED delivered
     ELSE /\ delivered' = Emit(delivered, LeaderboardRoom, "leaderboardUpdate", received + 1)
          /\ UNCHANGED handlers
  /\ UNCHANGED <<coreVars, auxVars, sock, connectedUsers, authPending, messages>>

\* handleScoreUpdate after getTop10 has resolved, lines 349-364
handleScoreUpdate(m) ==
  /\ m \in handlers
  /\ handlers' = handlers \ {m}
  /\ delivered' = Emit(Emit(delivered, LeaderboardRoom, "scoreUpdate", m),
                       UserRoom(messages[m].userId), "personalScoreUpdate", m)
  /\ UNCHANGED <<coreVars, auxVars, sock, connectedUsers, authPending, messages, received>>

NextFanout ==
  \/ \E s \in Sockets : Connect(s)
  \/ \E s \in Sockets : AuthReceive(s)
  \/ \E s \in Sockets : AuthSettle(s)
  \/ \E s \in Sockets : Disconnect(s)
  \/ PublishMessage
  \/ OnMessage
  \/ \E m \in 1..MaxMessages : handleScoreUpdate(m)

SpecFanout == Init /\ [][NextFanout]_vars

\* ------------------------------------------------------ problem3: sum_to_n
\* the for loop of sum_to_n_a from the iteration with counter i on
RECURSIVE ForLoop(_, _, _)
ForLoop(i, sum, m) == IF i <= m THEN ForLoop(i + 1, sum + i, m) ELSE sum

sum_to_n_a(m) == Value(ForLoop(1, 0, m))

\* mutation: the guard for n <= 0 is left out
sum_to_n_b_unguarded(m) == Value((m * (m + 1)) \div 2)

sum_to_n_b(m) == IF m <= 0 THEN Value(0) ELSE Value((m * (m + 1)) \div 2)

\* sum_to_n_c with `free` stack frames left: a call needs one frame
RECURSIVE Recurse(_, _)
Recurse(m, free) ==
  IF free = 0 THEN RangeError
  ELSE IF m <= 0 THEN Value(0)
  ELSE LET rest == Recurse(m - 1, free - 1)
       IN  IF rest.kind = "RangeError" THEN RangeError ELSE Value(m + rest.val)

sum_to_n_c(m) == Recurse(m, StackDepth)

CallA ==
  /\ resultA = NotCalled
  /\ resultA' = sum_to_n_a(sumInput)
  /\ UNCHANGED <<notSumVars, sumInput, resultB, resultC>>

CallB ==
  /\ resultB = NotCalled
  /\ resultB' = sum_to_n_b(sumInput)
  /\ UNCHANGED <<notSumVars, sumInput, resultA, resultC>>

CallC ==
  /\ resultC = NotCalled
  /\ resultC' = sum_to_n_c(sumInput)
  /\ UNCHANGED <<notSumVars, sumInput, resultA, resultB>>

NextSum == CallA \/ CallB \/ CallC

SpecSum == InitSum /\ [][NextSum]_vars

\* --------------------------------------------- problem4: ResourceService
\* mapRowToResource
mapRowToResource(row) ==
  [present |-> TRUE, id |-> row.id, name |-> row.name, description |-> row.description,
   type |-> row.type, status |-> row.status,
   metadata |-> IF row.metadata = Null THEN Undefined ELSE JsonParse(row.metadata),
   created_at |-> row.created_at, updated_at |-> row.updated_at]

\* findById: null is NoResource
findById(id) == IF resources[id].present THEN mapRowToResource(resources[id])
                ELSE NoResource

\* the fields of data that the UPDATE statement sets
Updates(data) ==
  {f \in {"name", "description", "type", "status", "metadata"} : data[f] # Undefined}

\* mutation: status is written like in create, `data.status || 'active'`
UpdateStatementDefaultsStatus(row, data, t) ==
  [row EXCEPT !.name = IF data.name # Undefined THEN data.name ELSE @,
              !.description = IF data.description # Undefined THEN data.description ELSE @,
              !.type = IF data.type # Undefined THEN data.type ELSE @,
              !.status = IF data.status # Undefined THEN data.status ELSE "active",
              !.metadata = IF data.metadata # Undefined
                           THEN JsonStringify(data.metadata) ELSE @,
              !.updated_at = t]

\* UPDATE resources SET ... WHERE id = ? on the row, with the trigger
\* update_resources_timestamp
UpdateStatement(row, data, t) ==
  [row EXCEPT !.name = IF data.name # Undefined THEN data.name ELSE @,
              !.description = IF data.description # Undefined THEN data.description ELSE @,
              !.type = IF data.type # Undefined THEN data.type ELSE @,
              !.status = IF data.status # Undefined THEN data.status ELSE @,
              !.metadata = IF data.metadata # Undefined
                           THEN JsonStringify(data.metadata) ELSE @,
              !.updated_at = t]

\* update, lines 130-167: findById, the 404, the SET list, the empty update
UpdateFind(u) ==
  /\ upd[u].pc = "idle"
  /\ \A v \in Updaters : v < u => upd[v].pc # "idle"
  /\ \E id \in ResourceIds, data \in UpdateDtos :
       LET resource == findById(id) IN
       upd' = [upd EXCEPT ![u] =
         IF ~resource.present
         THEN [pc |-> "done", id |-> id, data |-> data,
               result |-> AppError(404, "RESOURCE_NOT_FOUND")]
         ELSE IF Updates(data) = {}
         THEN [pc |-> "done", id |-> id, data |-> data,
               result |-> ReturnedResource(resource)]
         ELSE [pc |-> "found", id |-> id, data |-> data, result |-> NoResult]]
  /\ UNCHANGED <<notResVars, resources>>

\* line 178: dbRun(query, ...params); the statement may also fail
UpdateRun(u) ==
  /\ upd[u].pc = "found"
  /\ \/ /\ resources' = [resources EXCEPT ![upd[u].id] =
               IF @.present THEN UpdateStatement(@, upd[u].data, now) ELSE @]
        /\ upd' = [upd EXCEPT ![u].pc = "ran"]
     \/ /\ upd' = [upd EXCEPT ![u].pc = "done",
                              ![u].result = AppError(500, "RESOURCE_UPDATE_ERROR")]
        /\ UNCHANGED resources
  /\ UNCHANGED notResVars

\* lines 180-188: the second findById and the return
UpdateRead(u) ==
  /\ upd[u].pc = "ran"
  /\ LET updatedResource == findById(upd[u].id) IN
     upd' = [upd EXCEPT ![u].pc = "done",
                        ![u].result = IF updatedResource.present
                                      THEN ReturnedResource(updatedResource)
                                      ELSE AppError(500, "RESOURCE_UPDATE_ERROR")]
  /\ UNCHANGED <<notResVars, resources>>

\* create: the INSERT of a resource with a fresh id
CreateResource ==
  /\ \E id \in ResourceIds :
       /\ ~resources[id].present
       /\ resources' = [resources EXCEPT ![id] = InsertedRow(id, OriginalDto, now)]
  /\ UNCHANGED <<notResVars, upd>>

\* delete: the DELETE of an existing resource
DeleteResource ==
  /\ \E id \in ResourceIds :
       /\ resources[id].present
       /\ resources' = [resources EXCEPT ![id] = NoResource]
  /\ UNCHANGED <<notResVars, upd>>

NextResource ==
  \/ Tick
  \/ \E u \in Updaters : UpdateFind(u)
  \/ \E u \in Updaters : UpdateRun(u)
  \/ \E u \in Updaters : UpdateRead(u)
  \/ CreateResource
  \/ DeleteResource

SpecResource == Init /\ [][NextResource]_vars

\* --------------------------------------------------- leaderboard queries
IdPos(u) == CHOOSE i \in DOMAIN RankUserOrder : RankUserOrder[i] = u

\* the orders in which a query with ORDER BY current_score DESC may return the
\* rows: descending by score, rows of equal score in any order
OrderedByScoreDesc ==
  {p \in [1..Cardinality(RankUsers) -> RankUsers] :
     /\ \A i, j \in DOMAIN p : i # j => p[i] # p[j]
     /\ \A i, j \in DOMAIN p : i < j => board[p[i]] >= board[p[j]]}

\* the first k rows
Limit(rows, k) == SubSeq(rows, 1, IF Len(rows) < k THEN Len(rows) ELSE k)

\* RANK() OVER (ORDER BY current_score DESC): one more than the number of rows
\* with a greater score
Rank(u) == 1 + Cardinality({v \in RankUsers : board[v] > board[u]})

\* a committed change of a user's score
SetScore ==
  /\ \E u \in RankUsers, v \in BoardScores : board' = [board EXCEPT ![u] = v]
  /\ UNCHANGED <<notRankVars, top, view>>

\* CacheManager.calculateLeaderboard
calculateLeaderboard ==
  /\ \E p \in OrderedByScoreDesc :
       top' = Limit([i \in DOMAIN p |-> [userId |-> p[i], currentScore |-> board[p[i]]]],
                    LeaderboardLimit)
  /\ UNCHANGED <<notRankVars, board, view>>

\* QueryOptimizer.optimizeLeaderboardQuery: CREATE MATERIALIZED VIEW mv_top_scores
optimizeLeaderboardQuery ==
  /\ view = <<>>
  /\ \E p \in OrderedByScoreDesc :
       view' = Limit([i \in DOMAIN p |-> [id |-> p[i], current_score |-> board[p[i]],
                                         rank |-> Rank(p[i])]], ViewLimit)
  /\ UNCHANGED <<notRankVars, board, top>>

NextRanking == SetScore \/ calculateLeaderboard \/ optimizeLeaderboardQuery

SpecRanking == Init /\ [][NextRanking]_vars

(***************************************************************************)
(* problem4 server (worker process): readiness, graceful shutdown and the  *)
(* ConnectionDrainer                                                       *)
(***************************************************************************)

\* the requests in flight at once, the latest time a first signal arrives, and
\* the step of the worker's clock
MaxRequests == 2
MaxSrvTime == 10000
SrvStep == 5000

SHUTDOWN_TIMEOUT == 30000
READINESS_PROBE_DELAY == 5000
ForceBuffer == 5000

Due(timer) == timer # NoTimer /\ srvNow >= timer

\* process.exit(code): nothing of the process runs afterwards
processExit(code, by) ==
  /\ exit' = [code |-> code, by |-> by]
  /\ srvPc' = "exited"

\* startServer: the database is initialized, the server listens, the listen
\* callback arms the readiness timer, the signal handlers are registered
startServer ==
  /\ srvPc = "starting"
  /\ srvPc' = "listening"
  /\ readyAt' = srvNow + READINESS_PROBE_DELAY
  /\ UNCHANGED <<notSrvVars, srvNow, isReady, isShuttingDown, isDraining, activeRequests,
                 forceAt, drainStart, srvLog, exit>>

\* startServer when initializeDatabase rejects: the catch block exits with 1
startServerFails ==
  /\ srvPc = "starting"
  /\ processExit(1, "startServer")
  /\ UNCHANGED <<notSrvVars, srvNow, isReady, isShuttingDown, isDraining, activeRequests,
                 readyAt, forceAt, drainStart, srvLog>>

\* the callback of the readiness timer; the timer is never cleared
readinessTimer ==
  /\ srvPc # "exited"
  /\ Due(readyAt)
  /\ isReady' = TRUE
  /\ readyAt' = NoTimer
  /\ UNCHANGED <<notSrvVars, srvNow, srvPc, isShuttingDown, isDraining, activeRequests,
                 forceAt, drainStart, srvLog, exit>>

\* gracefulShutdown, on SIGTERM, SIGINT or an uncaught exception: a second
\* signal returns at once; the first sets the flags, starts the draining, calls
\* server.close and arms the forced-shutdown timer
gracefulShutdown ==
  /\ srvPc \notin {"starting", "exited"}
  /\ ~isShuttingDown
  /\ isShuttingDown' = TRUE
  /\ isReady' = FALSE
  /\ isDraining' = TRUE
  /\ srvPc' = "closing"
  /\ forceAt' = srvNow + SHUTDOWN_TIMEOUT + ForceBuffer
  /\ UNCHANGED <<notSrvVars, srvNow, activeRequests, readyAt, drainStart, srvLog, exit>>

\* the callback of server.close, once the server's connections have ended: it
\* logs and starts waitForRequestsToComplete
serverClosed ==
  /\ srvPc = "closing"
  /\ srvPc' = "draining"
  /\ srvLog' = Append(srvLog, "HTTP server closed")
  /\ drainStart' = srvNow
  /\ UNCHANGED <<notSrvVars, srvNow, isReady, isShuttingDown, isDraining, activeRequests,
                 readyAt, forceAt, exit>>

\* mutation: the wait resolves whatever the count and the elapsed time are
checkRequestsWithoutWaiting ==
  /\ srvPc = "draining"
  /\ srvLog' = Append(srvLog, "All active requests completed")
  /\ srvPc' = "closingDb"
  /\ UNCHANGED <<notSrvVars, srvNow, isReady, isShuttingDown, isDraining, activeRequests,
                 readyAt, forceAt, drainStart, exit>>

\* checkRequests of waitForRequestsToComplete, at a poll that resolves: no
\* request is active, or the timeout has elapsed (any other poll re-arms itself)
checkRequests ==
  /\ srvPc = "draining"
  /\ \/ /\ activeRequests = 0
        /\ srvLog' = Append(srvLog, "All active requests completed")
     \/ /\ activeRequests # 0
        /\ srvNow - drainStart >= SHUTDOWN_TIMEOUT
        /\ srvLog' = Append(srvLog, "Timeout waiting for requests to complete")
  /\ srvPc' = "closingDb"
  /\ UNCHANGED <<notSrvVars, srvNow, isReady, isShuttingDown, isDraining, activeRequests,
                 readyAt, forceAt, drainStart, exit>>

\* closeDatabase resolves: the shutdown logs and exits with 0
closeDatabase ==
  /\ srvPc = "closingDb"
  /\ srvLog' = Append(srvLog, "Database connections closed")
  /\ processExit(0, "gracefulShutdown")
  /\ UNCHANGED <<notSrvVars, srvNow, isReady, isShuttingDown, isDraining, activeRequests,
                 readyAt, forceAt, drainStart>>

\* closeDatabase rejects: the catch block of the shutdown exits with 1
closeDatabaseFails ==
  /\ srvPc = "closingDb"
  /\ processExit(1, "catch")
  /\ UNCHANGED <<notSrvVars, srvNow, isReady, isShuttingDown, isDraining, activeRequests,
                 readyAt, forceAt, drainStart, srvLog>>

\* the callback of the forced-shutdown timer
forceTimer ==
  /\ srvPc # "exited"
  /\ Due(forceAt)
  /\ processExit(1, "forceTimer")
  /\ UNCHANGED <<notSrvVars, srvNow, isReady, isShuttingDown, isDraining, activeRequests,
                 readyAt, forceAt, drainStart, srvLog>>

\* ConnectionDrainer.middleware: a request is tracked; requests arrive while the
\* server has connections (the tracker runs before the shutdown's 503)
middleware ==
  /\ srvPc \in {"listening", "closing"}
  /\ activeRequests < MaxRequests
  /\ activeRequests' = activeRequests + 1
  /\ UNCHANGED <<notSrvVars, srvNow, srvPc, isReady, isShuttingDown, isDraining, readyAt,
                 forceAt, drainStart, srvLog, exit>>

\* cleanup, on the response's finish, close or error
cleanup ==
  /\ srvPc # "exited"
  /\ activeRequests > 0
  /\ activeRequests' = activeRequests - 1
  /\ UNCHANGED <<notSrvVars, srvNow, srvPc, isReady, isShuttingDown, isDraining, readyAt,
                 forceAt, drainStart, srvLog, exit>>

\* the worker's clock advances; a timer that is due runs before the clock moves
\* on, and the clock is followed up to MaxSrvTime or to the end of a shutdown
SrvTick ==
  /\ srvPc # "exited"
  /\ ~Due(readyAt)
  /\ ~Due(forceAt)
  /\ isShuttingDown \/ srvNow < MaxSrvTime
  /\ srvNow' = srvNow + SrvStep
  /\ UNCHANGED <<notSrvVars, srvPc, isReady, isShuttingDown, isDraining, activeRequests,
                 readyAt, forceAt, drainStart, srvLog, exit>>

NextServer ==
  \/ startServer
  \/ startServerFails
  \/ readinessTimer
  \/ gracefulShutdown
  \/ serverClosed
  \/ checkRequests
  \/ closeDatabase
  \/ closeDatabaseFails
  \/ forceTimer
  \/ middleware
  \/ cleanup
  \/ SrvTick

SpecServer == Init /\ [][NextServer]_vars

\* the event loop runs the callbacks of due timers and time passes
FairSpecServer ==
  SpecServer /\ WF_vars(SrvTick) /\ WF_vars(readinessTimer) /\ WF_vars(forceTimer)

(***************************************************************************)
(* CircuitBreaker                                                          *)
(***************************************************************************)

\* the invocations of execute followed, the step of the breaker's clock and the
\* time the clock is followed to
MaxBrkCalls == 8
BrkStep == 30000
MaxBrkTime == 150000

failureThreshold == 5
successThreshold == 3
timeout == 60000

\* execute up to the call of the operation: an OPEN breaker whose timeout has
\* passed becomes HALF_OPEN and the operation is called; an OPEN breaker
\* otherwise answers with the fallback or throws; any other breaker calls the
\* operation
executeBegin(o, fb) ==
  /\ ops[o].pc = "idle"
  /\ brkCalls < MaxBrkCalls
  /\ brkCalls' = brkCalls + 1
  /\ IF state = "OPEN"
     THEN IF brkNow - lastFailureTime > timeout
          THEN /\ state' = "HALF_OPEN"
               /\ successCount' = 0
               /\ ops' = [ops EXCEPT ![o] = [pc |-> "running", fallback |-> fb, out |-> "none"]]
          ELSE /\ ops' = [ops EXCEPT ![o] =
                    [pc |-> "idle", fallback |-> fb,
                     out |-> IF fb THEN "fallback" ELSE "Circuit breaker is OPEN"]]
               /\ UNCHANGED <<state, successCount>>
     ELSE /\ ops' = [ops EXCEPT ![o] = [pc |-> "running", fallback |-> fb, out |-> "none"]]
          /\ UNCHANGED <<state, successCount>>
  /\ UNCHANGED <<notBrkVars, failures, lastFailureTime, brkNow>>

\* onSuccess
onSuccess ==
  /\ failures' = 0
  /\ IF state = "HALF_OPEN"
     THEN /\ successCount' = successCount + 1
          /\ state' = IF successCount + 1 >= successThreshold THEN "CLOSED" ELSE state
     ELSE UNCHANGED <<successCount, state>>

\* the operation resolves: onSuccess, and execute returns the result
operationSucceeds(o) ==
  /\ ops[o].pc = "running"
  /\ onSuccess
  /\ ops' = [ops EXCEPT ![o] = [@ EXCEPT !.pc = "idle", !.out = "result"]]
  /\ UNCHANGED <<notBrkVars, lastFailureTime, brkNow, brkCalls>>

\* onFailure
onFailure ==
  /\ failures' = failures + 1
  /\ lastFailureTime' = brkNow
  /\ state' = IF failures + 1 >= failureThreshold THEN "OPEN" ELSE state

\* the operation rejects: onFailure, and execute answers with the fallback or
\* rethrows
operationFails(o) ==
  /\ ops[o].pc = "running"
  /\ onFailure
  /\ ops' = [ops EXCEPT ![o] =
       [@ EXCEPT !.pc = "idle", !.out = IF ops[o].fallback THEN "fallback" ELSE "error"]]
  /\ UNCHANGED <<notBrkVars, successCount, brkNow, brkCalls>>

BrkTick ==
  /\ brkNow < MaxBrkTime
  /\ brkNow' = brkNow + BrkStep
  /\ UNCHANGED <<notBrkVars, state, failures, lastFailureTime, successCount, ops, brkCalls>>

NextBreaker ==
  \/ \E o \in Ops, fb \in BOOLEAN : executeBegin(o, fb)
  \/ \E o \in Ops : operationSucceeds(o)
  \/ \E o \in Ops : operationFails(o)
  \/ BrkTick

SpecBreaker == Init /\ [][NextBreaker]_vars

(***************************************************************************)
(* ScoreUpdateSaga                                                         *)
(***************************************************************************)

\* the saga's steps, in the order of the array
steps == <<"validateAction", "updateScore", "updateLeaderboard", "notifyUsers">>

\* Array.prototype.reverse
Reverse(q) == [i \in 1..Len(q) |-> q[Len(q) + 1 - i]]

\* execute is called: the loop over the steps starts
sagaExecute(g) ==
  /\ saga[g].pc = "idle"
  /\ saga' = [saga EXCEPT ![g] = [NoSaga EXCEPT !.pc = "executing", !.step = 1]]
  /\ UNCHANGED notSagaVars

\* a step's execute resolves: it is pushed to executedSteps; after the last
\* step execute returns success
stepResolves(g) ==
  /\ saga[g].pc = "executing"
  /\ saga' = [saga EXCEPT ![g] =
       [@ EXCEPT !.executedSteps = Append(saga[g].executedSteps, steps[saga[g].step]),
                 !.step = saga[g].step + 1,
                 !.pc = IF saga[g].step = Len(steps) THEN "done" ELSE "executing",
                 !.success = saga[g].step = Len(steps)]]
  /\ UNCHANGED notSagaVars

\* a step's execute rejects: the catch block reverses executedSteps in place
\* and starts the loop of compensations (with nothing executed it returns)
stepRejects(g) ==
  /\ saga[g].pc = "executing"
  /\ saga' = [saga EXCEPT ![g] =
       [@ EXCEPT !.failedAt = saga[g].step,
                 !.executedSteps = Reverse(saga[g].executedSteps),
                 !.at = 1,
                 !.pc = IF saga[g].executedSteps = <<>> THEN "done" ELSE "compensating"]]
  /\ UNCHANGED notSagaVars

\* mutation: a compensation that throws ends the loop of compensations
compensateStoppingOnThrow(g, threw) ==
  /\ saga[g].pc = "compensating"
  /\ saga' = [saga EXCEPT ![g] =
       [@ EXCEPT !.compensated = Append(saga[g].compensated,
                     [step |-> saga[g].executedSteps[saga[g].at], threw |-> threw]),
                 !.at = saga[g].at + 1,
                 !.pc = IF threw \/ saga[g].at = Len(saga[g].executedSteps)
                        THEN "done" ELSE "compensating"]]
  /\ UNCHANGED notSagaVars

\* one turn of the loop of compensations: compensate of the step is called; it
\* resolves, or it throws and the error is logged; after the last turn execute
\* returns without success
compensate(g, threw) ==
  /\ saga[g].pc = "compensating"
  /\ saga' = [saga EXCEPT ![g] =
       [@ EXCEPT !.compensated = Append(saga[g].compensated,
                     [step |-> saga[g].executedSteps[saga[g].at], threw |-> threw]),
                 !.at = saga[g].at + 1,
                 !.pc = IF saga[g].at = Len(saga[g].executedSteps)
                        THEN "done" ELSE "compensating"]]
  /\ UNCHANGED notSagaVars

NextSaga ==
  \/ \E g \in Sagas : sagaExecute(g)
  \/ \E g \in Sagas : stepResolves(g)
  \/ \E g \in Sagas : stepRejects(g)
  \/ \E g \in Sagas, threw \in BOOLEAN : compensate(g, threw)

SpecSaga == Init /\ [][NextSaga]_vars

\* ---------------------------------------------------------------- claims
Max(S) == CHOOSE x \in S : \A y \in S : y <= x
HistoryOf(u) == SelectSeq(history, LAMBDA h : h.userId = u)
RowsBy(c) == {i \in DOMAIN history : history[i].id = c}
CommitPos(c) == CHOOSE i \in DOMAIN history : history[i].id = c
Returned(c) == ret[c].kind = "returned"
\* the committed score of the row's user just before row i was committed
ScoreBefore(i) ==
  LET prior == {j \in 1..(i - 1) : history[j].userId = history[i].userId}
  IN  IF prior = {} THEN initialScore[history[i].userId]
      ELSE history[Max(prior)].newScore
DbChanged ==
  \/ scores' # scores
  \/ history' # history
  \/ \E i \in DOMAIN actions : actions'[i] # actions[i]
CommitStep(c) == pc[c] = "written" /\ pc'[c] = "committed"

\* C1: in every state each user's committed score is the initial score plus
\* the sum of the score changes of the committed (accepted) mutations of that
\* user, under every interleaving of the invocations
C1_Conservation ==
  \A u \in Users :
    scores[u].present =>
      scores[u].currentScore = initialScore[u] + SumScoreChange(HistoryOf(u))

\* two mutations of one user with distinct tokens are both committed while
\* neither invocation has returned
C1_Witness ==
  /\ Len(history) = 2
  /\ history[1].userId = history[2].userId
  /\ history[1].actionId # history[2].actionId
  /\ \A c \in Calls : pc[c] \in {"committed", "cached", "indexed"}

\* C2 as amended: an invocation that presents the token of an action that is
\* already completed (with its secret, for its user) changes no row and throws
\* 'Invalid or expired action token'
C2_RetryRejected ==
  [][\A c \in Calls :
       (pc[c] = "idle" /\ pc'[c] # "idle") =>
         \A actionId \in DOMAIN actions, scoreIncrement \in ScoreIncrements,
            actionType \in ActionTypes, secret \in Secrets :
           ( /\ actions[actionId].status = "completed"
             /\ updateScoreBegin(c, Request(actions[actionId].userId, actionId,
                  actions[actionId].token, scoreIncrement, actionType, secret)) )
           => /\ pc'[c] = "done"
              /\ ret'[c].kind = "thrown"
              /\ ret'[c].error = "Invalid or expired action token"
              /\ ~DbChanged]_vars

\* C2 as stated: that second invocation returns TokenAlreadyConsumed
C2_ReturnsTokenAlreadyConsumed ==
  [][\A c \in Calls :
       (pc[c] = "idle" /\ pc'[c] # "idle") =>
         \A actionId \in DOMAIN actions, scoreIncrement \in ScoreIncrements,
            actionType \in ActionTypes, secret \in Secrets :
           ( /\ actions[actionId].status = "completed"
             /\ updateScoreBegin(c, Request(actions[actionId].userId, actionId,
                  actions[actionId].token, scoreIncrement, actionType, secret)) )
           => /\ ret'[c].error = "TokenAlreadyConsumed"
              /\ ~DbChanged]_vars

\* the only action is completed and unexpired, its mutation is the only one,
\* and a later invocation has been turned away
C2_Witness ==
  /\ Len(actions) = 1
  /\ actions[1].status = "completed"
  /\ ~Expired(actions[1], now)
  /\ Len(history) = 1
  /\ \E c, d \in Calls :
       /\ c < d
       /\ Returned(c)
       /\ ret[d].error = "Invalid or expired action token"

\* C3: no two committed ScoreHistory rows reference the same action id
C3_SingleConsumption ==
  \A i, j \in DOMAIN history : i # j => history[i].actionId # history[j].actionId

\* C4: an invocation that throws before its commit has changed no Score row,
\* appended no ScoreHistory row and left every Action row as it was: the step
\* that throws changes no committed row, committed rows change only in the
\* commit step of an invocation, and no row of an invocation that threw exists
C4_AllOrNothing ==
  /\ [](\A c \in Calls : ret[c].kind = "thrown" => RowsBy(c) = {})
  /\ [][/\ \A c \in Calls :
            (ret[c].kind # "thrown" /\ ret'[c].kind = "thrown") =>
              (pc[c] \in {"idle", "validated", "recorded", "failed"} /\ ~DbChanged)
        /\ DbChanged => \E c \in Calls : CommitStep(c)]_vars

\* an invocation whose store operation failed has been rolled back
C4_Witness ==
  \E c \in Calls :
    /\ ret[c].error = "store operation failed"
    /\ history = <<>>
    /\ \A u \in Users : scores[u].present => scores[u].currentScore = initialScore[u]

\* C5 as amended: an invocation that returned has exactly one ScoreHistory
\* row, with previousScore = the user's committed score s before it and
\* newScore = s + scoreChange; it returned success with that newScore, and the
\* action is completed
C5_AcceptedResult ==
  \A c \in Calls :
    Returned(c) =>
      \E i \in DOMAIN history :
        /\ RowsBy(c) = {i}
        /\ history[i].previousScore = ScoreBefore(i)
        /\ history[i].newScore = history[i].previousScore + history[i].scoreChange
        /\ ret[c].success
        /\ ret[c].newScore = history[i].newScore
        /\ actions[history[i].actionId].status = "completed"

\* C5 as stated: the returned value carries previousScore and the token id
C5_ReturnsPreviousScoreAndToken ==
  \A c \in Calls :
    Returned(c) =>
      /\ "previousScore" \in DOMAIN ret[c]
      /\ "actionId" \in DOMAIN ret[c] \/ "tokenId" \in DOMAIN ret[c]

\* 100 and +50 give 150
C5_Witness ==
  \E c \in Calls :
    /\ Returned(c)
    /\ ret[c].newScore = 150
    /\ \E i \in RowsBy(c) : history[i].previousScore = 100 /\ history[i].scoreChange = 50

\* C6 as amended: no committed mutation has a score change above
\* maxScorePerAction, and an invocation whose increment exceeds it fails the
\* anti-cheat validation with 'Score update failed validation' (no reason is
\* reported) and changes no score
C6_MagnitudeBound ==
  /\ [](\A i \in DOMAIN history : history[i].scoreChange <= maxScorePerAction)
  /\ [][\A c \in Calls :
          ( /\ pc[c] = "validated"
            /\ pc'[c] # "validated"
            /\ req[c].scoreIncrement > maxScorePerAction )
          => /\ pc'[c] = "done"
             /\ ret'[c].kind = "thrown"
             /\ ret'[c].error = "Score update failed validation"
             /\ scores' = scores]_vars

\* C6 as stated: the rejection carries the reason MagnitudeExceeded
C6_ReasonMagnitudeExceeded ==
  [][\A c \in Calls :
       ( /\ pc[c] = "validated"
         /\ pc'[c] # "validated"
         /\ validateChecksum(req[c])
         /\ req[c].scoreIncrement > maxScorePerAction )
       => /\ ret'[c].error = "MagnitudeExceeded"
          /\ scores' = scores]_vars

\* an increment of 150 with a valid checksum was turned away
C6_Witness ==
  \E u \in Users, c \in Calls :
    /\ suspicious[u].present
    /\ suspicious[u].request.scoreIncrement = 150
    /\ validateChecksum(suspicious[u].request)
    /\ ret[c].error = "Score update failed validation"
    /\ scores[u].present
    /\ scores[u].currentScore = initialScore[u]

\* C7 as amended: when an invocation with a positive increment installs its
\* score while the index still holds the user's previous score at the rank the
\* invocation read, the new rank is at most the previous rank; and a Score
\* row changes only in the commit step of an invocation for that user
C7_RankMonotone ==
  [][/\ \A c \in Calls :
          ( /\ pc[c] = "cached"
            /\ pc'[c] = "indexed"
            /\ req[c].scoreIncrement > 0
            /\ index[req[c].userId].currentScore = loc[c].previousScore
            /\ getUserRank(index, req[c].userId) = loc[c].previousRank )
          => loc'[c].newRank <= loc[c].previousRank
     /\ \A u \in Users :
          scores'[u] # scores[u] =>
            \E c \in Calls : CommitStep(c) /\ req[c].userId = u]_vars

\* C7 as stated: every invocation that returned after raising its user's
\* score reports rank <= previousRank
C7_RankNeverWorse ==
  \A c \in Calls :
    (Returned(c) /\ \E i \in RowsBy(c) : history[i].scoreChange > 0) =>
      ret[c].rank <= ret[c].previousRank

\* a user has overtaken another one
C7_Witness ==
  \E c \in Calls : Returned(c) /\ ret[c].rank < ret[c].previousRank

\* the sequence numbers (positions in channel order) of the events a socket
\* got on the public leaderboard channel
RECURSIVE PublicSeqs(_)
PublicSeqs(d) ==
  IF d = <<>> THEN <<>>
  ELSE IF Head(d).event \in {"scoreUpdate", "leaderboardUpdate"}
       THEN <<Head(d).seq>> \o PublicSeqs(Tail(d))
       ELSE PublicSeqs(Tail(d))

\* C8: for every socket the sequence numbers of the change events delivered to
\* it on the leaderboard channel increase strictly and without gaps
C8_OrderedDelivery ==
  \A s \in Sockets :
    LET q == PublicSeqs(delivered[s])
    IN  \A k \in 1..(Len(q) - 1) : q[k + 1] = q[k] + 1

\* C9: events are handed to the publisher in the order of their commits (stated
\* for the runs in which every token was consumed at most once)
C9_PublishFollowsCommit ==
  C3_SingleConsumption =>
    \A i, j \in DOMAIN pubBy :
      i < j => CommitPos(pubBy[i]) < CommitPos(pubBy[j])

\* C10: once an invocation has returned, the leaderboard index holds for its
\* user the new score of that mutation or of a later committed one (stated for
\* the runs in which every token was consumed at most once)
C10_ReadYourCommit ==
  C3_SingleConsumption =>
    \A c \in Calls :
      Returned(c) =>
        LET i == CommitPos(c)
            u == history[i].userId
        IN  index[u].currentScore \in
              {history[j].newScore : j \in {k \in i..Len(history) : history[k].userId = u}}

\* what validateScoreUpdate reads about a user: the two counters and the
\* user's ScoreHistory rows
AdmissionState(u) == <<lastAction[u], actionCount[u], HistoryOf(u)>>

C13_RejectedAttemptsCounted ==
  [][\A c \in Calls, u \in Users :
       (pc[c] = "validated" /\ pc'[c] = "done" /\ req[c].userId = u) =>
         getActionCount(u, now)' = getActionCount(u, now) + 1]_vars

TokenFailureMessage == "Invalid or expired action token"
AdmissionRejectionMessage == "Score update failed validation"
TypedRejections ==
  {"TokenInvalid", "TokenExpired", "TokenAlreadyConsumed", "ProofInvalid",
   "MagnitudeExceeded", "TooFrequent", "VolumeExceeded", "PatternSuspicious"}

\* C14 as amended: updateScore reports a token failure by throwing an Error
\* with the message 'Invalid or expired action token' and an admission
\* rejection by throwing an Error with the message 'Score update failed
\* validation'; no other outcome carries either message, so the caller can
\* tell the two apart by the message (and nothing finer)
C14_RejectionsThrown ==
  [][\A c \in Calls :
       (ret[c].kind = "none" /\ ret'[c].kind # "none") =>
         /\ pc[c] = "idle" =>
              ret'[c].kind = "thrown" /\ ret'[c].error = TokenFailureMessage
         /\ pc[c] = "validated" =>
              ret'[c].kind = "thrown" /\ ret'[c].error = AdmissionRejectionMessage
         /\ pc[c] \notin {"idle", "validated"} =>
              ret'[c].error \notin {TokenFailureMessage, AdmissionRejectionMessage}]_vars

\* C14 as stated: a token failure and an admission rejection are returned as
\* typed rejection values, not thrown
C14_TypedRejections ==
  [][\A c \in Calls :
       (pc[c] \in {"idle", "validated"} /\ pc'[c] = "done") =>
         ret'[c].kind = "returned" /\ ret'[c].error \in TypedRejections]_vars

\* one invocation failed on its token and another on admission
C14_Witness ==
  \E c, d \in Calls :
    /\ ret[c].error = TokenFailureMessage
    /\ ret[d].error = AdmissionRejectionMessage

\* C15 as amended: updateScore accepts a token exactly when the action is
\* pending, belongs to the user, carries the supplied token and now <=
\* expiresAt (the instant expiresAt itself is still accepted); otherwise it
\* throws 'Invalid or expired action token'. An action becomes completed only
\* in the commit of an invocation that validated it, and no committed mutation
\* was validated after its token's expiresAt
C15_TokenGuard ==
  /\ [][\A c \in Calls :
          (pc[c] = "idle" /\ pc'[c] # "idle") =>
            \A userId \in Users, actionId \in DOMAIN actions, token \in Tokens,
               scoreIncrement \in ScoreIncrements, actionType \in ActionTypes,
               secret \in Secrets :
              updateScoreBegin(c, Request(userId, actionId, token, scoreIncrement,
                                          actionType, secret)) =>
                LET a == actions[actionId]
                    ok == /\ a.status = "pending"
                          /\ a.userId = userId
                          /\ a.token = token
                          /\ now <= a.expiresAt
                IN  /\ ok => pc'[c] = "validated"
                    /\ ~ok => /\ pc'[c] = "done"
                              /\ ret'[c].kind = "thrown"
                              /\ ret'[c].error = TokenFailureMessage]_vars
  /\ [][\A i \in DOMAIN actions :
          actions'[i].status # actions[i].status =>
            /\ actions[i].status = "pending"
            /\ actions'[i].status = "completed"
            /\ \E c \in Calls : CommitStep(c) /\ loc[c].action = i]_vars
  /\ [](\A i \in DOMAIN history :
          history[i].timestamp <= actions[history[i].actionId].expiresAt)

\* C15 as stated: a submission at now = expiresAt or later fails
C15_StrictExpiry ==
  [][\A c \in Calls :
       (pc[c] = "idle" /\ pc'[c] # "idle") =>
         \A userId \in Users, actionId \in DOMAIN actions, token \in Tokens,
            scoreIncrement \in ScoreIncrements, actionType \in ActionTypes,
            secret \in Secrets :
           ( /\ updateScoreBegin(c, Request(userId, actionId, token, scoreIncrement,
                                           actionType, secret))
             /\ now >= actions[actionId].expiresAt )
           => pc'[c] = "done"]_vars

\* a token presented at the instant expiresAt has led to a committed mutation,
\* and a later invocation was turned away on its token
C15_Witness ==
  /\ \E i \in DOMAIN history :
       history[i].timestamp = actions[history[i].actionId].expiresAt
  /\ \E c \in Calls : ret[c].error = TokenFailureMessage

\* the control points of updateScore from the validated token up to the commit
\* or the rollback
BeforeCommit == {"validated", "admitted", "recorded", "locked", "written", "failed"}

\* C20: no two executions of updateScore for the same user are between their
\* token validation and their commit at the same time
C20_MutualExclusion ==
  \A c, d \in Calls :
    (c # d /\ pc[c] \in BeforeCommit /\ pc[d] \in BeforeCommit) =>
      req[c].userId # req[d].userId

\* a step that emits an event to the room 'leaderboard'
PublicEmitStep ==
  \/ received' = received + 1 /\ messages[received + 1].channel = "leaderboard_updates"
  \/ handlers' # handlers /\ handlers' \subseteq handlers

\* C16 as amended: a connection that has not authenticated is in no room and
\* receives no event, neither of a personal channel nor of the public
\* leaderboard channel; a connection joins the room of a user (and the room
\* 'leaderboard') only when an auth with a valid token for that user settles
C16_ChannelAccess ==
  /\ [](\A s \in Sockets :
          sock[s].userId = "" => sock[s].rooms = {} /\ delivered[s] = <<>>)
  /\ [][\A s \in Sockets :
          \A room \in sock'[s].rooms \ sock[s].rooms :
            \E e \in authPending :
              /\ e[1] = s
              /\ e[2].valid
              /\ e \notin authPending'
              /\ room \in {UserRoom(e[2].userId), LeaderboardRoom}]_vars

\* C16 as stated, for the public channel: an event emitted on the leaderboard
\* channel reaches every connected socket, authenticated or not
C16_PublicWithoutAuth ==
  [][PublicEmitStep =>
       \A s \in Sockets :
         sock[s].status = "connected" => Len(delivered'[s]) > Len(delivered[s])]_vars

\* an authenticated socket has received a public and a personal event while a
\* connected socket that has not authenticated has received nothing
C16_Witness ==
  \E s, t \in Sockets :
    /\ sock[s].status = "connected"
    /\ sock[s].userId = ""
    /\ delivered[s] = <<>>
    /\ \E k \in DOMAIN delivered[t] : delivered[t][k].event = "personalScoreUpdate"
    /\ \E k \in DOMAIN delivered[t] : delivered[t][k].event = "scoreUpdate"

\* the sequence numbers of the public events the connections of user u got
PublicSeqsOf(u) ==
  UNION {{delivered[t][k].seq :
            k \in {j \in DOMAIN delivered[t] :
                     delivered[t][j].event \in {"scoreUpdate", "leaderboardUpdate"}}} :
         t \in {x \in Sockets : sock[x].userId = u}}

\* C17: a user with an active connection has missed no event: every message
\* that is fully processed and is later than one that a connection of the user
\* already received has been delivered to a connection of that user
C17_NoSkippedEvents ==
  \A u \in Users :
    (\E s \in Sockets : /\ sock[s].status = "connected"
                        /\ sock[s].userId = u
                        /\ LeaderboardRoom \in sock[s].rooms) =>
      \A m \in 1..received :
        (m \notin handlers /\ \E n \in PublicSeqsOf(u) : n < m) => m \in PublicSeqsOf(u)

DtoFields == {"name", "description", "type", "status", "metadata"}
\* the value a DTO field has once stored in its column
Stored(f, v) == IF f = "metadata" THEN JsonStringify(v) ELSE v

\* C19: the UPDATE step of an update(id, data) changes no row but the one with
\* that id and in it sets exactly the fields present in data, leaving id,
\* created_at and the absent fields as they were (updated_at is set by the
\* trigger); no other step of update changes a row; update returns the
\* resource unchanged for empty data and throws AppError 404 for an id that
\* has no row
C19_PartialUpdate ==
  [][\A u \in Updaters :
       /\ (upd[u].pc = "found" /\ upd'[u].pc = "ran") =>
            LET id == upd[u].id
                data == upd[u].data
            IN  /\ \A other \in ResourceIds \ {id} : resources'[other] = resources[other]
                /\ resources'[id].present = resources[id].present
                /\ resources[id].present =>
                     /\ resources'[id].id = resources[id].id
                     /\ resources'[id].created_at = resources[id].created_at
                     /\ \A f \in DtoFields :
                          resources'[id][f] = IF data[f] # Undefined
                                              THEN Stored(f, data[f])
                                              ELSE resources[id][f]
       /\ (upd'[u] # upd[u] /\ ~(upd[u].pc = "found" /\ upd'[u].pc = "ran")) =>
            resources' = resources
       /\ (upd[u].pc = "idle" /\ upd'[u].pc # "idle") =>
            LET id == upd'[u].id
                data == upd'[u].data
            IN  /\ ~resources[id].present =>
                     /\ upd'[u].pc = "done"
                     /\ upd'[u].result = AppError(404, "RESOURCE_NOT_FOUND")
                /\ (resources[id].present /\ \A f \in DtoFields : data[f] = Undefined) =>
                     /\ upd'[u].pc = "done"
                     /\ upd'[u].result = ReturnedResource(mapRowToResource(resources[id]))]_vars

\* an update of the name alone has returned: the row has the new name and its
\* original description, type and status; and another update ended with 404
C19_Witness ==
  \E u, v \in Updaters :
    /\ upd[u].pc = "done"
    /\ upd[u].result.kind = "returned"
    /\ upd[u].data = Dto("Only Name Updated", Undefined, Undefined, Undefined, Undefined)
    /\ upd[u].result.resource.name = "Only Name Updated"
    /\ upd[u].result.resource.description = "Original Description"
    /\ upd[u].result.resource.type = "original-type"
    /\ upd[u].result.resource.status = "active"
    /\ upd[v].result = AppError(404, "RESOURCE_NOT_FOUND")

\* C11: the leaderboard rows come in descending score order with equal scores
\* in ascending user id order, and no two users of the ranked view share a rank
C11_TotalRankingOrder ==
  /\ \A i, j \in DOMAIN top :
       i < j =>
         \/ top[i].currentScore > top[j].currentScore
         \/ /\ top[i].currentScore = top[j].currentScore
            /\ IdPos(top[i].userId) < IdPos(top[j].userId)
  /\ \A i, j \in DOMAIN view : i # j => view[i].rank # view[j].rank

\* every invocation has ended
AllFinished == \A c \in Calls : pc[c] = "done"
\* the user's last committed mutation
LastCommitOf(u) == Max({i \in DOMAIN history : history[i].userId = u})

\* C21: the score cache and the leaderboard index take a user's scores in the
\* order of the commits: once every invocation has ended, the user's cached
\* score (while the key lives) and the user's indexed score are the score
\* written by the user's last committed mutation (stated for the runs in which
\* every token was consumed at most once)
C21_IndexFollowsCommitOrder ==
  (C3_SingleConsumption /\ AllFinished) =>
    \A u \in Users :
      HistoryOf(u) # <<>> =>
        /\ RedisGet(scoreCache[u], now).present =>
             RedisGet(scoreCache[u], now).val = history[LastCommitOf(u)].newScore
        /\ index[u].currentScore = history[LastCommitOf(u)].newScore

\* C24: any two committed mutations of one user are more than
\* minTimeBetweenActions apart, whether the two submissions were processed one
\* after the other or concurrently
C24_MinimumSpacing ==
  \A i, j \in DOMAIN history :
    (i < j /\ history[i].userId = history[j].userId) =>
      history[j].timestamp - history[i].timestamp > minTimeBetweenActions

\* C22: for every user the number of committed mutations within the trailing
\* hour does not exceed maxActionsPerHour, in every interleaving of the user's
\* concurrent submissions
C22_HourlyCap ==
  \A u \in Users :
    Len(getRecentActions(u, ActionWindowSeconds, now)) <= maxActionsPerHour

\* the number of committed mutations of user u with a timestamp in [from, to]
AcceptedWithin(u, from, to) ==
  Cardinality({i \in DOMAIN history :
                 /\ history[i].userId = u
                 /\ from <= history[i].timestamp
                 /\ history[i].timestamp <= to})
\* every one-hour window that ends at one of the user's mutations or now holds
\* fewer mutations of the user than maxActionsPerHour
EveryWindowUnderCap(u) ==
  \A t \in {now} \cup {history[i].timestamp : i \in DOMAIN history} :
    AcceptedWithin(u, t - ActionWindowSeconds * 1000, t) < maxActionsPerHour

\* C23: a request is turned away by the hourly-volume test only when some
\* trailing one-hour window holds maxActionsPerHour accepted actions of the
\* user or more
C23_TrailingWindow ==
  [][\A c \in Calls :
       ( /\ pc[c] = "validated"
         /\ pc'[c] = "done"
         /\ RejectedAt(req[c], now) = "maxActionsPerHour" )
       => ~EveryWindowUnderCap(req[c].userId)]_vars

\* C25: for every user the committed mutations of the last 60 seconds number
\* at most rapidFireThreshold and the score changes committed in the last hour
\* sum to at most scoreVelocityLimit
C25_PatternThresholds ==
  \A u \in Users :
    /\ Len(getRecentActions(u, RapidFireWindowSeconds, now)) <= rapidFireThreshold
    /\ calculateScoreVelocity(u, ActionWindowSeconds, now) <= scoreVelocityLimit

\* the rejection reason that the specification attaches to each test
ReasonOf(name) ==
  CASE name = "checksum" -> "ProofInvalid"
    [] name = "maxScorePerAction" -> "MagnitudeExceeded"
    [] name = "minTimeBetweenActions" -> "TooFrequent"
    [] name = "maxActionsPerHour" -> "VolumeExceeded"
    [] name = "suspiciousPatterns" -> "PatternSuspicious"
    [] OTHER -> ""

\* the step in which validateScoreUpdate decides on the request of invocation c
AdmissionStep(c) == pc[c] = "validated" /\ pc'[c] # "validated"

C27_RejectionRecorded ==
  /\ [][\A c \in Calls :
          (AdmissionStep(c) /\ pc'[c] = "done") =>
            \E u \in Users :
              /\ req[c].userId = u
              /\ suspicious'[u].present
              /\ suspicious'[u].request = req[c]
              /\ suspicious'[u].timestamp = now
              /\ suspicious'[u].exp > now
              /\ ~DbChanged]_vars
  /\ [][\A u \in Users :
          suspicious'[u] # suspicious[u] =>
            \E c \in Calls :
              AdmissionStep(c) /\ pc'[c] = "done" /\ req[c].userId = u]_vars

\* a request was turned away by admission, its transaction is rolled back and
\* the invocation has thrown; the note with that request is still stored while
\* another invocation of the same user has committed since
C27_Witness ==
  \E u \in Users, c, d \in Calls :
    /\ ret[c].error = AdmissionRejectionMessage
    /\ tx[c] = NoTx
    /\ suspicious[u].present
    /\ suspicious[u].request.userId = u
    /\ suspicious[u].request.scoreIncrement = 150
    /\ suspicious[u].exp > now
    /\ Returned(d)
    /\ \E i \in RowsBy(d) : history[i].userId = u

\* the lifecycle state of a token as the Action row and the clock give it: the
\* row stores only 'pending' or 'completed'; a pending row past expiresAt is
\* the one that validateActionToken turns away as expired
TokenState(a, t) ==
  IF a.status = "completed" THEN "Consumed"
  ELSE IF Expired(a, t) THEN "Expired"
  ELSE "Pending"

\* C28: a token's state changes only from Pending, to Consumed or to Expired
\* (both are final), and the commit that consumes a token finds it pending
C28_TokenLifecycle ==
  [][\A i \in DOMAIN actions :
       /\ TokenState(actions[i], now)' # TokenState(actions[i], now) =>
            TokenState(actions[i], now) = "Pending"
       /\ \A c \in Calls :
            (CommitStep(c) /\ loc[c].action = i) => actions[i].status = "pending"]_vars

\* C29: an invocation that presents, for a user, the token of an action that
\* was issued for another user (whatever the secret) throws 'Invalid or
\* expired action token' and changes no row; a Score row changes only in the
\* commit of an invocation whose action was issued for that row's user, and
\* every ScoreHistory row belongs to the user its action was issued for
C29_TokenBoundToUser ==
  /\ [][\A c \in Calls :
          (pc[c] = "idle" /\ pc'[c] # "idle") =>
            \A userId \in Users, actionId \in DOMAIN actions,
               scoreIncrement \in ScoreIncrements, actionType \in ActionTypes,
               secret \in Secrets :
              ( /\ actions[actionId].userId # userId
                /\ updateScoreBegin(c, Request(userId, actionId, actions[actionId].token,
                                               scoreIncrement, actionType, secret)) )
              => /\ pc'[c] = "done"
                 /\ ret'[c].kind = "thrown"
                 /\ ret'[c].error = TokenFailureMessage
                 /\ ~DbChanged]_vars
  /\ [][\A u \in Users :
          scores'[u] # scores[u] =>
            \E c \in Calls :
              CommitStep(c) /\ actions[loc[c].action].userId = u]_vars
  /\ [](\A i \in DOMAIN history :
          history[i].userId = actions[history[i].actionId].userId)

\* the only action was issued for one user and is still pending and unexpired;
\* an invocation was turned away on its token and has not touched the other
\* user's Score row, which exists
C29_Witness ==
  \E u, v \in Users, c \in Calls :
    /\ u # v
    /\ Len(actions) = 1
    /\ actions[1].userId = u
    /\ actions[1].status = "pending"
    /\ ~Expired(actions[1], now)
    /\ ret[c].error = TokenFailureMessage
    /\ scores[v].present
    /\ scores[v].currentScore = initialScore[v]
    /\ history = <<>>

\* C30: an invocation whose store operation has failed inside the transaction
\* does not end with the store's error: from there it goes back to the read of
\* the Score row (a retry), or it ends with MutationFailed, and when it ends it
\* has changed no score
C30_BoundedConflictRetry ==
  [][\A c \in Calls :
       (pc[c] = "failed" /\ pc'[c] # "failed") =>
         \/ pc'[c] = "recorded"
         \/ /\ pc'[c] = "done"
            /\ ret'[c].kind = "thrown"
            /\ ret'[c].error = "MutationFailed"
            /\ scores' = scores]_vars

\* the state of a connection as the server holds it: no socket yet; connected
\* and not bound to a user; bound to a user by a successful 'auth'; disconnected
ConnState(s) ==
  CASE sock[s].status = "idle" -> "None"
    [] sock[s].status = "disconnected" -> "Disconnected"
    [] sock[s].status = "connected" /\ sock[s].userId = "" -> "Connecting"
    [] OTHER -> "Active"
ConnTransitions ==
  {<<"None", "Connecting">>, <<"Connecting", "Active">>,
   <<"Connecting", "Disconnected">>, <<"Active", "Disconnected">>}

C33_RegistryLifecycle ==
  \A u \in Users :
    /\ connectedUsers[u].ids =
         {s \in Sockets : sock[s].status = "connected" /\ sock[s].userId = u}
    /\ connectedUsers[u].has => connectedUsers[u].ids # {}

\* C34: updateScore throws only when it has committed nothing: no invocation
\* throws from a control point after its commit, and an invocation that has
\* thrown has no ScoreHistory row
C34_ErrorOnlyWithoutCommit ==
  /\ [][\A c \in Calls :
          (ret[c].kind # "thrown" /\ ret'[c].kind = "thrown") =>
            pc[c] \notin {"committed", "cached", "indexed"}]_vars
  /\ [](\A c \in Calls : ret[c].kind = "thrown" => RowsBy(c) = {})

\* C35: the step that completes validateScoreUpdate with true has set the
\* user's last_action to the request's timestamp and raised the user's
\* action_count by one; no later step of the invocation takes this back: when
\* the invocation throws afterwards ('User score not found', a failed store
\* operation) the two keys stay as they are, and a user's count never goes down
C35_BookkeepingOutsideTransaction ==
  /\ [][\A c \in Calls, u \in Users :
          (pc[c] = "admitted" /\ pc'[c] = "recorded" /\ req[c].userId = u) =>
            /\ getLastActionTime(u, now)'.present
            /\ getLastActionTime(u, now)'.val = req[c].timestamp
            /\ getActionCount(u, now)' = getActionCount(u, now) + 1]_vars
  /\ [][\A c \in Calls :
          (pc[c] \in {"recorded", "locked", "written", "failed"} /\ pc'[c] = "done") =>
            /\ ret'[c].kind = "thrown"
            /\ lastAction' = lastAction
            /\ actionCount' = actionCount]_vars
  /\ [][\A u \in Users : getActionCount(u, now)' >= getActionCount(u, now)]_vars

\* a user without a Score row was admitted and recorded, the invocation threw
\* 'User score not found', and the user's count and last action are still set
\* while nothing was committed
C35_Witness ==
  \E u \in Users, c \in Calls :
    /\ ~scores[u].present
    /\ ret[c].error = "User score not found"
    /\ getActionCount(u, now) = 1
    /\ getLastActionTime(u, now).present
    /\ HistoryOf(u) = <<>>

\* C36: in every state of the worker, isShuttingDown implies that isReady is
\* false: once gracefulShutdown has started isReady is never true again
C36_NotReadyWhileShuttingDown ==
  isShuttingDown => ~isReady

\* the log of a shutdown that ran to its end: the server closed, then the wait
\* for the requests ended, then the database closed
CompletedShutdownLogs ==
  {<<"HTTP server closed", w, "Database connections closed">> :
     w \in {"All active requests completed", "Timeout waiting for requests to complete"}}

ExitsAfterSignal == isShuttingDown ~> srvPc = "exited"

ExitZeroOnlyAfterDrain ==
  /\ [](exit.code = 0 => isShuttingDown /\ srvLog \in CompletedShutdownLogs)
  /\ [][(srvPc = "draining" /\ srvPc' = "closingDb") =>
          \/ activeRequests = 0
          \/ srvNow - drainStart >= SHUTDOWN_TIMEOUT]_vars
  /\ [][(srvPc = "closing" /\ srvPc' # "closing") =>
          srvPc' = "draining" \/ exit'.by = "forceTimer"]_vars

\* C37: after a signal the worker eventually exits; it exits with 0 only after
\* the server closed, then the requests were drained (none active, or the drain
\* timeout elapsed), then the database closed; every other exit after a signal
\* has code 1 and comes from the forced-shutdown timer or, when closing the
\* database fails, from the catch block of the shutdown
C37_DrainThenExit ==
  /\ ExitsAfterSignal
  /\ ExitZeroOnlyAfterDrain
  /\ []((isShuttingDown /\ srvPc = "exited" /\ exit.code # 0) =>
          /\ exit.code = 1
          /\ exit.by \in {"forceTimer", "catch"}
          /\ exit.by = "catch" => srvLog \in {SubSeq(l, 1, 2) : l \in CompletedShutdownLogs})

\* the drain timeout elapsed with a request still active, the database closed
\* and the worker exited with 0 before the forced-shutdown timer was due
C37_Witness ==
  /\ exit.code = 0
  /\ srvLog[2] = "Timeout waiting for requests to complete"
  /\ activeRequests > 0
  /\ srvNow < forceAt

\* C37 as stated: every exit after a signal that is not the exit with 0 comes
\* from the forced-shutdown timer
C37_OnlyForceTimerExitsWithOne ==
  /\ ExitsAfterSignal
  /\ ExitZeroOnlyAfterDrain
  /\ []((isShuttingDown /\ srvPc = "exited" /\ exit.code # 0) =>
          exit.code = 1 /\ exit.by = "forceTimer")

\* C38: whenever an operation fails while the breaker is HALF_OPEN the breaker
\* is OPEN afterwards, whatever number of successes the half-open period has
\* counted
C38_HalfOpenFailureReopens ==
  [][\A o \in Ops : (operationFails(o) /\ state = "HALF_OPEN") => state' = "OPEN"]_vars

\* the steps compensate was called for, in the order of the calls
CompensatedSteps(g) == [i \in DOMAIN saga[g].compensated |-> saga[g].compensated[i].step]

\* the steps that completed before step k, last one first
CompletedBefore(k) == [i \in 1..(k - 1) |-> steps[k - i]]

\* C39: when step k of an execution has thrown and the execution has returned,
\* compensate has been called exactly once for each of the steps 1..k-1, the
\* last completed step first, and for no other step, whether compensations
\* threw or not; until then the calls made are the first ones of that order;
\* an execution none of whose steps threw calls no compensate
C39_SagaCompensation ==
  \A g \in Sagas :
    /\ (saga[g].pc = "done" /\ saga[g].failedAt # 0) =>
         /\ ~saga[g].success
         /\ CompensatedSteps(g) = CompletedBefore(saga[g].failedAt)
    /\ saga[g].pc = "compensating" =>
         /\ Len(saga[g].compensated) < saga[g].failedAt - 1
         /\ CompensatedSteps(g) =
              SubSeq(CompletedBefore(saga[g].failedAt), 1, Len(saga[g].compensated))
    /\ saga[g].failedAt = 0 => saga[g].compensated = <<>>

\* the last step threw, the compensation of updateLeaderboard threw, and the
\* two remaining compensations were still called
C39_Witness ==
  \E g \in Sagas :
    /\ saga[g].pc = "done"
    /\ saga[g].failedAt = Len(steps)
    /\ saga[g].compensated[1] = [step |-> "updateLeaderboard", threw |-> TRUE]
    /\ Len(saga[g].compensated) = 3

====
